---------------------------- MODULE Spec2Model ----------------------------
(***************************************************************************)
(* A model of src/ai-video-gen/src/app/page.tsx: the prompt hasher, the    *)
(* seeded generator, the scene builder, the frame renderer's use of the    *)
(* 2D context, and the Home component's frame scheduling.                  *)
(*                                                                         *)
(* Numbers.  TLC's integers are 32 bits wide, the program's numbers are    *)
(* IEEE doubles holding integers of up to 53 bits.  An integer n is kept   *)
(* as the pair <<hi, lo>> with n = hi * 2^16 + lo and lo in 0..65535 (hi   *)
(* carries the sign).  A draw of the generator, state / 2^32, is kept as   *)
(* its numerator state.  A real-valued field a + b * draw is kept as the   *)
(* exact numerator (a*D) * 2^32 + (b*D) * state over D * 2^32, D the       *)
(* denominator that makes a*D and b*D integers; the program's field is     *)
(* the double nearest to it.  Distinct numerators are at least 2^-32 * b   *)
(* apart, rounding moves a value by at most 2^-52 of its size, so equal    *)
(* numerators mean equal doubles and an interval [l, u) with l and u - l   *)
(* multiples of the step holds of the double iff it holds of the           *)
(* numerator.                                                              *)
(*                                                                         *)
(* Strings are sequences of UTF-16 code units.                             *)
(***************************************************************************)
EXTENDS Integers, Sequences, FiniteSets, TLC

VARIABLES
    \* a call of hashString: position, argument, loop index i, accumulator hash, returned value
    hPc, hInput, hI, hHash, hRet,
    \* one generator made by createRng: position, seed, closure variable state,
    \* value last returned (numerator over 2^32), calls made
    gPc, gSeed, gState, gOut, gCalls,
    \* the closure variable state of every generator createRng has made, in
    \* the order made; the calls of buildScene that have returned (the prompt
    \* and the blueprint returned); the calls the latest of them made to its
    \* generator
    rngHeap, scenes, lastDraws,
    \* the canvas (width and height) and the state of its 2D context; the
    \* calls of drawScene that have returned: how many, the arguments of the
    \* latest (the canvas as it was, the time in milliseconds, the prompt of
    \* the blueprint) and the drawing commands it issued
    canvas, ctx, frames, frameArgs, frameLog,
    \* the browser: whether MediaRecorder supports one of the page's three
    \* types; performance.now() in milliseconds; the frame callbacks
    \* requested and not yet run or cancelled and the next id
    \* requestAnimationFrame returns; the stop timers set and not yet run; the
    \* recordings handleGenerate has started
    mimeSupported, clock, pendingFrames, rafNext, timers, recordings,
    \* the Home component: its state (progress as a fraction of 100, videoUrl
    \* as whether it is set, error as its text, "null" for null),
    \* rafRef.current (0 for null), the preview effect as it last ran (its
    \* dependencies, and whether it returned a cleanup), and the number of
    \* changes made to the form's inputs
    prompt, fps, duration, resolution, status, progress, videoUrl, error,
    rafRef, effect, edits

hashVars == <<hPc, hInput, hI, hHash, hRet>>
rngVars == <<gPc, gSeed, gState, gOut, gCalls>>
sceneVars == <<rngHeap, scenes, lastDraws>>
renderVars == <<canvas, ctx, frames, frameArgs, frameLog>>
browserVars == <<mimeSupported, clock, pendingFrames, rafNext, timers, recordings>>
formVars == <<prompt, fps, duration, resolution>>
homeVars == <<formVars, status, progress, videoUrl, error, rafRef, effect, edits>>
vars == <<hashVars, rngVars, sceneVars, renderVars, browserVars, homeVars>>

\* Bounds of the model
MaxStrLen == 3
MaxDraws == 24
MaxCalls == 3
MaxFrames == 3
MaxClock == 9000
MaxRecordings == 1
MaxEdits == 1

---------------------------------------------------------------------------
(* F(v).  TLC evaluates an operator's argument where it is used, which     *)
(* nests the steps of a loop; Bind evaluates v before F is applied.        *)

Bind(v, F(_)) == CHOOSE r \in {F(x) : x \in {v}} : TRUE

---------------------------------------------------------------------------
(* Wide integers                                                           *)

B16 == 256 * 256

W(hi, lo) == <<hi + (lo \div B16), lo % B16>>
WInt(n) == W(0, n)
WZero == <<0, 0>>
WAdd(a, b) == W(a[1] + b[1], a[2] + b[2])
WSub(a, b) == W(a[1] - b[1], a[2] - b[2])
WMul(a, k) == W(a[1] * k, a[2] * k)
WLt(a, b) == a[1] < b[1] \/ (a[1] = b[1] /\ a[2] < b[2])
WLe(a, b) == a = b \/ WLt(a, b)
WAbs(a) == IF a[1] < 0 THEN WSub(WZero, a) ELSE a
\* 2^31 and 2^32
Two31 == <<32768, 0>>
Two32 == <<B16, 0>>
\* ECMAScript ToInt32 of an integer: its residue modulo 2^32 in -2^31 .. 2^31 - 1
ToInt32(a) == <<((a[1] + 32768) % B16) - 32768, a[2]>>
\* x % 0x100000000 for an integer x >= 0
ModTwo32(a) == <<a[1] % B16, a[2]>>
IsUint32(a) == a[1] \in 0..(B16 - 1) /\ a[2] \in 0..(B16 - 1)

---------------------------------------------------------------------------
(* Strings                                                                 *)

\* The code units String.prototype.trim removes (WhiteSpace and LineTerminator)
WhiteSpace == {9, 10, 11, 12, 13, 32, 160, 5760, 8232, 8233, 8239, 8287, 12288, 65279}
                  \cup (8192..8202)

RECURSIVE TrimStart(_)
TrimStart(s) == IF s # <<>> /\ Head(s) \in WhiteSpace THEN TrimStart(Tail(s)) ELSE s

RECURSIVE TrimEnd(_)
TrimEnd(s) ==
    IF s # <<>> /\ s[Len(s)] \in WhiteSpace THEN TrimEnd(SubSeq(s, 1, Len(s) - 1)) ELSE s

Trim(s) == TrimEnd(TrimStart(s))

\* toLowerCase of one code unit, for Basic Latin, Latin-1 and U+0130 (whose
\* lower case is the two units U+0069 U+0307); every other unit the model's
\* prompts hold is uncased.
LowerOf(c) ==
    IF c \in 65..90 \/ c \in ((192..222) \ {215}) THEN <<c + 32>>
    ELSE IF c = 304 THEN <<105, 775>>
    ELSE <<c>>

\* The recursions over a string or a count halve it, so that their depth is
\* the logarithm of its length.
RECURSIVE ToLowerCase(_)
ToLowerCase(s) ==
    IF s = <<>> THEN <<>>
    ELSE IF Len(s) = 1 THEN LowerOf(s[1])
    ELSE ToLowerCase(SubSeq(s, 1, Len(s) \div 2))
             \o ToLowerCase(SubSeq(s, (Len(s) \div 2) + 1, Len(s)))

\* "sora"
Sora == <<115, 111, 114, 97>>

\* prompt.trim().toLowerCase() || "sora"
TrimLower(p) == ToLowerCase(Trim(p))
Normalize(p) == IF TrimLower(p) = <<>> THEN Sora ELSE TrimLower(p)

---------------------------------------------------------------------------
(* hashString                                                              *)

\* hash << 5
Shl5(h) == ToInt32(WMul(ToInt32(h), 32))

\* An iteration without its hash |= 0
HashStepNoWrap(h, c) == WAdd(WSub(Shl5(h), h), WInt(c))
\* One iteration of the loop: hash = (hash << 5) - hash + charCode; hash |= 0
HashStep(h, c) == ToInt32(WAdd(WSub(Shl5(h), h), WInt(c)))

\* The for loop over input[from + 1 .. from + count], entered with hash = h
RECURSIVE HashLoop(_, _, _, _)
HashLoop(h, s, from, count) ==
    IF count = 0 THEN h
    ELSE IF count = 1 THEN HashStep(h, s[from + 1])
    ELSE Bind(HashLoop(h, s, from, count \div 2),
              LAMBDA mid : HashLoop(mid, s, from + (count \div 2), count - (count \div 2)))

\* The whole function: let hash = 0; the loop; return Math.abs(hash)
HashString(s) == WAbs(HashLoop(WZero, s, 0, Len(s)))

---------------------------------------------------------------------------
(* createRng                                                               *)

\* 1664525 = LcgMulHi * 2^16 + LcgMulLo, 1013904223 = LcgIncHi * 2^16 + LcgIncLo
LcgMulHi == 25
LcgMulLo == 26125
LcgIncHi == 15470
LcgIncLo == 62303

\* state * 1664525 + 1013904223 as the three limbs <<top, hi, lo>> of
\* top * 2^32 + hi * 2^16 + lo, for a state below 2^32
LcgProduct(state) ==
    LET t0 == state[2] * LcgMulLo + LcgIncLo
        t1 == state[2] * LcgMulHi + state[1] * LcgMulLo + LcgIncHi + (t0 \div B16)
        t2 == state[1] * LcgMulHi + (t1 \div B16)
    IN  <<t2, t1 % B16, t0 % B16>>

\* The product is below 2^53: the doubles state * 1664525 and
\* state * 1664525 + 1013904223 are the integers themselves
LcgExact(state) == LcgProduct(state)[1] < 32 * B16

\* let state = seed || 1
SeedState(seed) == IF seed = WZero THEN WInt(1) ELSE seed

\* The update without its increment: state * 1664525 % 0x100000000
RngNextNoIncrement(state) ==
    LET t0 == state[2] * LcgMulLo
        t1 == state[2] * LcgMulHi + state[1] * LcgMulLo + (t0 \div B16)
    IN  <<t1 % B16, t0 % B16>>
\* state = (state * 1664525 + 1013904223) % 0x100000000
RngNext(state) == LET product == LcgProduct(state) IN <<product[2], product[3]>>

\* state / 0x80000000, as the numerator over 2^32
RngValueOverTwo31(state) == WMul(state, 2)
\* return state / 0x100000000, as the numerator over 2^32
RngValue(state) == state

---------------------------------------------------------------------------
(* buildScene                                                              *)

\* A generator in use: the heap of closure states, the index of its own
\* state in it, and the calls made to it so far (the site of each call in
\* buildScene, the index of the layer or spark being made, the value
\* returned).

\* One state for every generator: a later generator goes on from where the
\* first was left
CreateRngShared(heap, seed) ==
    IF heap = <<>> THEN [heap |-> <<SeedState(seed)>>, id |-> 1, trace |-> <<>>]
    ELSE [heap |-> heap, id |-> 1, trace |-> <<>>]
\* createRng(seed): a closure with a state of its own
CreateRng(heap, seed) ==
    [heap |-> Append(heap, SeedState(seed)), id |-> Len(heap) + 1, trace |-> <<>>]

\* rng() at a site of buildScene
Rng(g, site, index) ==
    LET next == RngNext(g.heap[g.id])
    IN  [heap  |-> [g.heap EXCEPT ![g.id] = next],
         id    |-> g.id,
         trace |-> Append(g.trace, [site |-> site, index |-> index, value |-> RngValue(next)])]

\* the value the generator's latest call returned
Value(g) == g.trace[Len(g.trace)].value

\* Math.floor(r * n) for a draw r and an integer n
FloorTimes(r, n) == WMul(r, n)[1] \div B16

\* a/D + r * b/D for a draw r, as the numerator over D * 2^32
Affine(a, b, r) == WAdd(<<a * B16, 0>>, WMul(r, b))

\* baseHash % 360
Mod360(w) == ((w[1] % 360) * (B16 % 360) + w[2]) % 360

\* baseHash >> 8
Shr8(w) == ToInt32(w)[1] * 256 + (ToInt32(w)[2] \div 256)

\* x % 360 of an integer x: the sign is the dividend's
Rem360(x) == IF x >= 0 THEN x % 360 ELSE -((-x) % 360)

\* 360 * clamp(((baseHash >> 8) % 360) / 360, 0, 1)
Accent360(baseHash) ==
    IF Rem360(Shr8(baseHash)) < 0 THEN 0
    ELSE IF Rem360(Shr8(baseHash)) > 360 THEN 360
    ELSE Rem360(Shr8(baseHash))

\* The two CSS colours of the background.  A hue in degrees that the code
\* computes as the floor of a double expression is kept as the operands of
\* that expression: here baseHash % 360 for hue and 360 * accent.
Background(baseHash) ==
    <<[hue |-> <<Mod360(baseHash)>>, saturation |-> 68, lightness |-> 12],
      [hue |-> <<Mod360(baseHash), Accent360(baseHash)>>, saturation |-> 80, lightness |-> 22]>>

\* The callback with the call for radius made first
MakeLayerRadiusFirst(g, index, hue360) ==
    LET g5 == Rng(g, "radius", index)
        g1 == Rng(g5, "layerHue", index)
        g2 == Rng(g1, "saturation", index)
        g3 == Rng(g2, "lightness", index)
        g4 == Rng(g3, "alpha", index)
        g6 == Rng(g4, "rotation", index)
        g7 == Rng(g6, "speed", index)
        g8 == Rng(g7, "variance", index)
    IN  [g    |-> g8,
         item |-> [color    |-> [hue        |-> <<hue360, Value(g1), index>>,
                                 saturation |-> 60 + FloorTimes(Value(g2), 30),
                                 lightness  |-> 45 + FloorTimes(Value(g3), 20),
                                 alpha      |-> Affine(7, 7, Value(g4))],
                   radius   |-> Affine(5, 13, Value(g5)),
                   rotation |-> Affine(0, 2, Value(g6)),
                   speed    |-> Affine(2, 9, Value(g7)),
                   variance |-> Affine(2, 6, Value(g8))]]
\* The callback of the layers' map: eight calls of rng, in the order of
\* evaluation (layerHue, then the three in the colour's template, then the
\* four fields)
MakeLayer(g, index, hue360) ==
    LET g1 == Rng(g, "layerHue", index)
        g2 == Rng(g1, "saturation", index)
        g3 == Rng(g2, "lightness", index)
        g4 == Rng(g3, "alpha", index)
        g5 == Rng(g4, "radius", index)
        g6 == Rng(g5, "rotation", index)
        g7 == Rng(g6, "speed", index)
        g8 == Rng(g7, "variance", index)
    IN  [g    |-> g8,
         \* hue: (hue + rng() * 0.25 - 0.125 + index * 0.03) % 1, kept as its operands
         \* alpha over 20, radius over 20, rotation in units of pi, speed and variance over 10
         item |-> [color    |-> [hue        |-> <<hue360, Value(g1), index>>,
                                 saturation |-> 60 + FloorTimes(Value(g2), 30),
                                 lightness  |-> 45 + FloorTimes(Value(g3), 20),
                                 alpha      |-> Affine(7, 7, Value(g4))],
                   radius   |-> Affine(5, 13, Value(g5)),
                   rotation |-> Affine(0, 2, Value(g6)),
                   speed    |-> Affine(2, 9, Value(g7)),
                   variance |-> Affine(2, 6, Value(g8))]]

\* The callback of the sparks' map: five calls of rng.  angle in units of
\* pi, distance over 10, size over 1, drift over 2, hueShift over 1
MakeSpark(g, index) ==
    LET g1 == Rng(g, "angle", index)
        g2 == Rng(g1, "distance", index)
        g3 == Rng(g2, "size", index)
        g4 == Rng(g3, "drift", index)
        g5 == Rng(g4, "hueShift", index)
    IN  [g    |-> g5,
         item |-> [angle    |-> Affine(0, 2, Value(g1)),
                   distance |-> Affine(1, 9, Value(g2)),
                   size     |-> Affine(1, 2, Value(g3)),
                   drift    |-> Affine(1, 3, Value(g4)),
                   hueShift |-> Affine(-20, 40, Value(g5))]]

\* Array.from({ length: count }).map(Make): Make is called for the indices
\* first .. first + count - 1 in order, each call on the generator as the
\* call before left it
RECURSIVE MapFrom(_, _, _, _)
MapFrom(Make(_, _), g, first, count) ==
    IF count = 0 THEN [g |-> g, items |-> <<>>]
    ELSE IF count = 1 THEN Bind(Make(g, first), LAMBDA one : [g |-> one.g, items |-> <<one.item>>])
    ELSE Bind(MapFrom(Make, g, first, count \div 2),
              LAMBDA left :
                  Bind(MapFrom(Make, left.g, first + (count \div 2), count - (count \div 2)),
                       LAMBDA right : [g |-> right.g, items |-> left.items \o right.items]))

\* The body of buildScene from the generator on
SceneFrom(rng, baseHash) ==
    LET g1 == Rng(rng, "layerCount", 0)
        layerCount == 5 + FloorTimes(Value(g1), 5)
        layers == MapFrom(LAMBDA g, index : MakeLayer(g, index, Mod360(baseHash)),
                          g1, 0, layerCount)
        g2 == Rng(layers.g, "sparkCount", 0)
        sparkCount == 120 + FloorTimes(Value(g2), 180)
        sparks == MapFrom(MakeSpark, g2, 0, sparkCount)
        g3 == Rng(sparks.g, "pulse", 0)
        g4 == Rng(g3, "distort", 0)
    IN  [heap      |-> g4.heap,
         draws     |-> g4.trace,
         \* pulse over 5, distort over 10
         blueprint |-> [layers     |-> layers.items,
                        sparks     |-> sparks.items,
                        background |-> Background(baseHash),
                        pulse      |-> Affine(2, 2, Value(g3)),
                        distort    |-> Affine(5, 9, Value(g4))]]

\* The scene of the prompt as typed, neither trimmed nor lower-cased
BuildSceneRaw(heap, text) ==
    Bind(HashString(text), LAMBDA baseHash : SceneFrom(CreateRng(heap, baseHash), baseHash))
\* buildScene(prompt), on the heap of the generators made so far
BuildScene(heap, text) ==
    Bind(HashString(Normalize(text)),
         LAMBDA baseHash : SceneFrom(CreateRng(heap, baseHash), baseHash))

---------------------------------------------------------------------------
(* drawScene.  A run of drawScene is a record r of the context's state     *)
(* r.ctx and the drawing commands issued so far r.log.  A command is kept  *)
(* with the compositing mode and the filter in effect when it is issued    *)
(* and, if it paints with the fill style, the fill style.  The time is in  *)
(* milliseconds.  A shape is kept as its kind, its index in the blueprint  *)
(* and what its coordinates are computed from besides the blueprint: the   *)
(* canvas, and for a layer or a spark the time.                            *)

\* The state of a 2D context when it is created and after its canvas is
\* given a width or a height
DefaultContext ==
    [globalCompositeOperation |-> "source-over",
     filter                   |-> [kind |-> "none", halfPixels |-> 0],
     fillStyle                |-> [kind |-> "color", value |-> <<"#000000">>]]

\* canvas.width = resolution; canvas.height = resolution
ResizeCanvas(side) ==
    [canvas |-> [width |-> side, height |-> side], ctx |-> DefaultContext]

NoStyle == [kind |-> "unused", value |-> <<>>]

Issue(r, cmd, shape, style) ==
    [r EXCEPT !.log = Append(@, [cmd    |-> cmd,
                                shape  |-> shape,
                                blend  |-> r.ctx.globalCompositeOperation,
                                filter |-> r.ctx.filter,
                                style  |-> style])]

\* ctx.clearRect(0, 0, width, height)
ClearRect(r, size) ==
    Issue(r, "clearRect", [kind |-> "rect", index |-> 0, from |-> <<size>>], NoStyle)

\* the linear gradient of the two background colours becomes the fill
\* style and fills the canvas
FillBackground(r, size, blueprint) ==
    LET gradient == [kind |-> "linearGradient", value |-> blueprint.background]
        styled == [r EXCEPT !.ctx.fillStyle = gradient]
    IN  Issue(styled, "fillRect", [kind |-> "rect", index |-> 0, from |-> <<size>>],
              styled.ctx.fillStyle)

\* `blur(${3 + index * 1.5}px)`, the radius in half pixels
BlurOf(index) == [kind |-> "blur", halfPixels |-> 6 + index * 3]

\* The callback of layers.forEach: the path of the layer, its colour as the
\* fill style, its blur as the filter, fill
FillLayer(r, size, time, index, layer) ==
    LET styled == [r EXCEPT !.ctx.fillStyle = [kind |-> "color", value |-> <<layer.color>>],
                            !.ctx.filter = BlurOf(index)]
    IN  Issue(styled, "fill", [kind |-> "layer", index |-> index, from |-> <<size, time>>],
              styled.ctx.fillStyle)

\* the filter left as the last layer set it
FilterNoneSkipped(r) == r
\* ctx.filter = "none"
FilterNone(r) == [r EXCEPT !.ctx.filter = [kind |-> "none", halfPixels |-> 0]]

\* ctx.globalCompositeOperation = "lighter"
Lighter(r) == [r EXCEPT !.ctx.globalCompositeOperation = "lighter"]

\* The callback of sparks.forEach: the radial gradient of the spark as the
\* fill style, the path of its disc, fill
FillSpark(r, size, time, idx, spark) ==
    LET gradientSpark == [kind  |-> "radialGradient",
                          value |-> <<[hueShift |-> spark.hueShift, time |-> time],
                                      "hsla(0, 0%, 100%, 0)">>]
        styled == [r EXCEPT !.ctx.fillStyle = gradientSpark]
    IN  Issue(styled, "fill", [kind |-> "spark", index |-> idx, from |-> <<size, time>>],
              styled.ctx.fillStyle)

\* the compositing mode left as the spark pass set it
SourceOverSkipped(r) == r
\* ctx.globalCompositeOperation = "source-over"
SourceOver(r) == [r EXCEPT !.ctx.globalCompositeOperation = "source-over"]

\* items.forEach(Step): Step is called for the indices first .. first +
\* count - 1 in order, each on the run as the call before left it
RECURSIVE ForEachFrom(_, _, _, _, _)
ForEachFrom(Step(_, _, _), r, items, first, count) ==
    IF count = 0 THEN r
    ELSE IF count = 1 THEN Step(r, first, items[first + 1])
    ELSE Bind(ForEachFrom(Step, r, items, first, count \div 2),
              LAMBDA left :
                  ForEachFrom(Step, left, items, first + (count \div 2), count - (count \div 2)))

LayerPass(r, size, time, blueprint) ==
    ForEachFrom(LAMBDA run, index, layer : FillLayer(run, size, time, index, layer),
                r, blueprint.layers, 0, Len(blueprint.layers))

SparkPass(r, size, time, blueprint) ==
    ForEachFrom(LAMBDA run, idx, spark : FillSpark(run, size, time, idx, spark),
                r, blueprint.sparks, 0, Len(blueprint.sparks))

\* The passes in the other order: the sparks, then the layers
DrawSceneSparksFirst(context, size, time, blueprint) ==
    LET r0 == [ctx |-> context, log |-> <<>>]
        r1 == FillBackground(ClearRect(r0, size), size, blueprint)
        r2 == SparkPass(Lighter(FilterNone(r1)), size, time, blueprint)
        r3 == LayerPass(SourceOver(r2), size, time, blueprint)
    IN  FilterNone(r3)
\* drawScene(ctx, time, blueprint), ctx the context of a canvas of the
\* given size and in the given state: the state it leaves and the commands
\* it issues
DrawScene(context, size, time, blueprint) ==
    LET r0 == [ctx |-> context, log |-> <<>>]
        r1 == FillBackground(ClearRect(r0, size), size, blueprint)
        r2 == Bind(LayerPass(r1, size, time, blueprint), LAMBDA r : Lighter(FilterNone(r)))
        r3 == Bind(SparkPass(r2, size, time, blueprint), LAMBDA r : SourceOver(r))
    IN  r3

---------------------------------------------------------------------------
(* Inputs                                                                  *)

PromptEmpty == <<>>
PromptBlank == <<32, 32, 9>>
PromptMixed == <<32, 83, 111, 82, 97, 9>>
PromptNul == <<0>>
PromptMinInt == <<120, 102, 106, 102, 120, 116, 102>>
PromptRain == <<114, 97, 105, 110>>
PromptNebula == <<110, 101, 98, 117, 108, 97>>
\* the prompt the page starts with (line 170)
PromptDefault ==
    <<100, 114, 101, 97, 109, 108, 105, 107, 101, 32, 110, 101, 111, 110, 32, 99,
      105, 116, 121, 115, 99, 97, 112, 101, 32, 119, 105, 116, 104, 32, 102, 108,
      111, 97, 116, 105, 110, 103, 32, 107, 111, 105, 32, 102, 105, 115, 104, 32,
      97, 110, 100, 32, 97, 117, 114, 111, 114, 97, 32, 115, 107, 121>>

Prompts ==
    {PromptEmpty, PromptBlank, Sora, PromptMixed, PromptNul, PromptMinInt,
     PromptRain, PromptNebula}

HashAlphabet == {0, 32, 65, 97, 65535}

RECURSIVE StringsUpTo(_)
StringsUpTo(n) ==
    IF n = 0 THEN {<<>>}
    ELSE LET shorter == StringsUpTo(n - 1)
         IN  shorter \cup {Append(s, c) : s \in shorter, c \in HashAlphabet}

HashInputs ==
    StringsUpTo(MaxStrLen) \cup Prompts \cup {Normalize(p) : p \in Prompts} \cup {PromptDefault}

Seeds == {HashString(s) : s \in HashInputs} \cup {WSub(Two31, WInt(1))}

\* The prompts whose scenes are drawn, and the blueprint buildScene returns
\* for each
RenderPrompts == {PromptNebula, PromptDefault}
BlueprintOf == [p \in RenderPrompts |-> BuildScene(<<>>, p).blueprint]

\* The input for the resolution: its least value and the value the page
\* starts with
Resolutions == {384, 768}

\* Elapsed times of a frame, in milliseconds
Times == {0, 16, 3200}

\* The input for the duration in seconds: the value the page starts with
\* and the least value
Durations == {6, 2}

\* fpsOptions
FpsOptions == {12, 24, 30}

\* The time between two animation frames, in milliseconds
TickMs == 3000

---------------------------------------------------------------------------
(* Initial state                                                           *)

InitHash == hPc = "idle" /\ hInput = <<>> /\ hI = 0 /\ hHash = WZero /\ hRet = WZero
InitRng == gPc = "none" /\ gSeed = WZero /\ gState = WZero /\ gOut = WZero /\ gCalls = 0

InitScene == rngHeap = <<>> /\ scenes = <<>> /\ lastDraws = <<>>

\* a canvas element with no width or height attribute; no call of drawScene
InitRender ==
    /\ canvas = [width |-> 300, height |-> 150]
    /\ ctx = DefaultContext
    /\ frames = 0
    /\ frameArgs = [canvas |-> [width |-> 0, height |-> 0], time |-> 0, prompt |-> <<>>]
    /\ frameLog = <<>>

\* no frame requested, no timer set, no recording started
InitBrowser ==
    /\ mimeSupported \in BOOLEAN
    /\ clock = 0
    /\ pendingFrames = {}
    /\ rafNext = 1
    /\ timers = {}
    /\ recordings = <<>>

\* Home as first rendered, its effect not yet run
InitHome ==
    /\ prompt = PromptDefault
    /\ fps = 24
    /\ duration = 6
    /\ resolution = 768
    /\ status = "idle"
    /\ progress = <<0, 1>>
    /\ videoUrl = FALSE
    /\ error = "null"
    /\ rafRef = 0
    /\ effect = [ran |-> FALSE, blueprint |-> PromptDefault, resolution |-> 768,
                 status |-> "idle", cleanup |-> FALSE]
    /\ edits = 0

InitApp == InitHash /\ InitRng /\ InitScene /\ InitRender /\ InitBrowser /\ InitHome

Init == InitApp /\ mimeSupported

---------------------------------------------------------------------------
(* hashString, one step at a time                                          *)

\* hashString(input) is entered: let hash = 0; i = 0
HashCall(input) ==
    /\ hPc \in {"idle", "done"}
    /\ hPc' = "loop"
    /\ hInput' = input
    /\ hI' = 0
    /\ hHash' = WZero
    /\ hRet' = WZero
    /\ UNCHANGED <<rngVars, sceneVars, renderVars, browserVars, homeVars>>

\* one iteration of the for loop
HashIter ==
    /\ hPc = "loop"
    /\ hI < Len(hInput)
    /\ hHash' = HashStep(hHash, hInput[hI + 1])
    /\ hI' = hI + 1
    /\ UNCHANGED <<hPc, hInput, hRet>>
    /\ UNCHANGED <<rngVars, sceneVars, renderVars, browserVars, homeVars>>

\* return Math.abs(hash)
HashReturn ==
    /\ hPc = "loop"
    /\ hI >= Len(hInput)
    /\ hRet' = WAbs(hHash)
    /\ hPc' = "done"
    /\ UNCHANGED <<hInput, hI, hHash>>
    /\ UNCHANGED <<rngVars, sceneVars, renderVars, browserVars, homeVars>>

NextHash ==
    \/ \E input \in HashInputs : HashCall(input)
    \/ HashIter
    \/ HashReturn

SpecHash == Init /\ [][NextHash]_vars

---------------------------------------------------------------------------
(* A generator, one call at a time                                         *)

\* createRng(seed)
RngCreate(seed) ==
    /\ gPc' = "live"
    /\ gSeed' = seed
    /\ gState' = SeedState(seed)
    /\ gOut' = WZero
    /\ gCalls' = 0
    /\ UNCHANGED <<hashVars, sceneVars, renderVars, browserVars, homeVars>>

\* the returned closure is called
RngCall ==
    /\ gPc = "live"
    /\ gCalls < MaxDraws
    /\ gState' = RngNext(gState)
    /\ gOut' = RngValue(RngNext(gState))
    /\ gCalls' = gCalls + 1
    /\ UNCHANGED <<gPc, gSeed>>
    /\ UNCHANGED <<hashVars, sceneVars, renderVars, browserVars, homeVars>>

NextRng ==
    \/ \E seed \in Seeds : RngCreate(seed)
    \/ RngCall

SpecRng == Init /\ [][NextRng]_vars

---------------------------------------------------------------------------
(* Calls of buildScene                                                     *)

\* buildScene(prompt) is called and returns
CallBuildScene(text) ==
    /\ Len(scenes) < MaxCalls
    /\ \E built \in {BuildScene(rngHeap, text)} :
           /\ rngHeap' = built.heap
           /\ scenes' = Append(scenes, [prompt |-> text, blueprint |-> built.blueprint])
           /\ lastDraws' = built.draws
    /\ UNCHANGED <<hashVars, rngVars, renderVars, browserVars, homeVars>>

NextScene == \E text \in Prompts : CallBuildScene(text)

SpecScene == Init /\ [][NextScene]_vars

---------------------------------------------------------------------------
(* Calls of drawScene on the context of the page's canvas                  *)

\* what a call of drawScene leaves
Drawn(time, text) ==
    \E run \in {DrawScene(ctx, canvas, time, BlueprintOf[text])} :
        /\ ctx' = run.ctx
        /\ frameLog' = run.log
        /\ frameArgs' = [canvas |-> canvas, time |-> time, prompt |-> text]
        /\ frames' = frames + 1
        /\ UNCHANGED canvas

\* the caller gives the canvas its size
SetCanvasSize(side) ==
    /\ canvas' = ResizeCanvas(side).canvas
    /\ ctx' = ResizeCanvas(side).ctx
    /\ UNCHANGED <<frames, frameArgs, frameLog>>
    /\ UNCHANGED <<hashVars, rngVars, sceneVars, browserVars, homeVars>>

\* drawScene(ctx, time, blueprint) is called and returns
CallDrawScene(time, text) ==
    /\ frames < MaxFrames
    /\ Drawn(time, text)
    /\ UNCHANGED <<hashVars, rngVars, sceneVars, browserVars, homeVars>>

NextRender ==
    \/ \E side \in Resolutions : SetCanvasSize(side)
    \/ \E time \in Times, text \in RenderPrompts : CallDrawScene(time, text)

SpecRender == Init /\ [][NextRender]_vars

---------------------------------------------------------------------------
(* The Home component in the browser.  A frame callback is kept as the     *)
(* id requestAnimationFrame returned for it, the loop it belongs to, what  *)
(* its closure holds (start, the prompt of the blueprint, for a recording  *)
(* lengthMs and the recording) and the time it was requested at; it runs   *)
(* at a later time, with that time as its timestamp.                       *)
(*                                                                         *)
(* React renders a state update when the handler that made it returns and  *)
(* runs the preview effect after the render if a dependency changed.  It   *)
(* runs a pending effect before it renders the next update, so a handler   *)
(* of the form and the continuation of handleGenerate's await find no      *)
(* effect pending; an animation frame or a timer may come before it.       *)

\* stopAnimation(), on rafRef.current and the callbacks pending
StopAnimation(a) ==
    IF a.rafRef # 0
    THEN [rafRef |-> 0, pending |-> {f \in a.pending : f.id # a.rafRef}]
    ELSE a

\* rafRef.current = requestAnimationFrame(callback)
RequestFrame(a, callback) ==
    [rafRef |-> rafNext, pending |-> a.pending \cup {[callback EXCEPT !.id = rafNext]}]

Animation == [rafRef |-> rafRef, pending |-> pendingFrames]

\* Math.min(100, (elapsed / lengthMs) * 100), as a fraction of 100
ProgressOf(elapsed, lengthMs) ==
    IF elapsed >= lengthMs THEN <<1, 1>>
    ELSE IF elapsed = 0 THEN <<0, 1>>
    ELSE <<elapsed, lengthMs>>

\* The dependencies of the preview effect differ from those it last ran
\* with, or it has never run
EffectPending ==
    \/ ~effect.ran
    \/ effect.blueprint # prompt
    \/ effect.resolution # resolution
    \/ effect.status # status

\* time passes
Tick ==
    /\ clock + TickMs <= MaxClock
    /\ clock' = clock + TickMs
    /\ UNCHANGED <<mimeSupported, pendingFrames, rafNext, timers, recordings>>
    /\ UNCHANGED <<hashVars, rngVars, sceneVars, renderVars, homeVars>>

\* React runs the preview effect: the cleanup the last run returned, then
\* the effect's body
RunEffect ==
    /\ EffectPending
    /\ LET cleaned == IF effect.cleanup THEN StopAnimation(Animation) ELSE Animation
       IN  IF status = "rendering"
           THEN /\ rafRef' = cleaned.rafRef
                /\ pendingFrames' = cleaned.pending
                /\ effect' = [ran |-> TRUE, blueprint |-> prompt, resolution |-> resolution,
                              status |-> status, cleanup |-> FALSE]
                /\ UNCHANGED <<rafNext, canvas, ctx>>
           ELSE LET loop == [id |-> 0, kind |-> "preview", start |-> clock,
                             blueprint |-> prompt, lengthMs |-> 0, recording |-> 0,
                             at |-> clock]
                    looping == RequestFrame(StopAnimation(cleaned), loop)
                IN  /\ canvas' = ResizeCanvas(resolution).canvas
                    /\ ctx' = ResizeCanvas(resolution).ctx
                    /\ rafRef' = looping.rafRef
                    /\ pendingFrames' = looping.pending
                    /\ rafNext' = rafNext + 1
                    /\ effect' = [ran |-> TRUE, blueprint |-> prompt,
                                  resolution |-> resolution, status |-> status,
                                  cleanup |-> TRUE]
    /\ UNCHANGED <<frames, frameArgs, frameLog>>
    /\ UNCHANGED <<mimeSupported, clock, timers, recordings>>
    /\ UNCHANGED <<formVars, status, progress, videoUrl, error, edits>>
    /\ UNCHANGED <<hashVars, rngVars, sceneVars>>

\* An animation frame runs a pending callback, with the time as its
\* timestamp.  loop, of the preview effect: drawScene, and the callback
\* requests itself again.  step, of renderLoop: drawScene, setProgress, and
\* the callback requests itself again unless elapsed exceeds lengthMs.
AnimationFrame(f) ==
    /\ clock > f.at
    /\ Drawn(clock - f.start, f.blueprint)
    /\ LET looping == RequestFrame([rafRef |-> rafRef, pending |-> pendingFrames \ {f}],
                                   [f EXCEPT !.at = clock])
       IN  IF f.kind = "preview" \/ clock - f.start <= f.lengthMs
           THEN /\ rafRef' = looping.rafRef
                /\ pendingFrames' = looping.pending
                /\ rafNext' = rafNext + 1
                /\ UNCHANGED recordings
           ELSE /\ pendingFrames' = pendingFrames \ {f}
                /\ recordings' = [recordings EXCEPT ![f.recording].looping = FALSE]
                /\ UNCHANGED <<rafRef, rafNext>>
    /\ progress' = IF f.kind = "preview" THEN progress
                   ELSE ProgressOf(clock - f.start, f.lengthMs)
    /\ UNCHANGED <<mimeSupported, clock, timers>>
    /\ UNCHANGED <<formVars, status, videoUrl, error, effect, edits>>
    /\ UNCHANGED <<hashVars, rngVars, sceneVars>>

\* The form is submitted: handleGenerate up to its await.  The submit
\* button is disabled while status is "rendering".
HandleGenerate ==
    /\ status # "rendering"
    /\ ~EffectPending
    /\ IF ~mimeSupported
       THEN /\ error' = "MediaRecorder not supported in this browser"
            /\ UNCHANGED <<status, progress, videoUrl, rafRef>>
            /\ UNCHANGED <<pendingFrames, rafNext, timers, recordings>>
            /\ UNCHANGED <<canvas, ctx>>
       ELSE /\ Len(recordings) < MaxRecordings
            /\ error' = "null"
            /\ videoUrl' = FALSE
            /\ status' = "rendering"
            /\ progress' = <<0, 1>>
            /\ canvas' = ResizeCanvas(resolution).canvas
            /\ ctx' = ResizeCanvas(resolution).ctx
            /\ recordings' = Append(recordings,
                                    [recorder |-> "recording", looping |-> TRUE])
            /\ LET step == [id |-> 0, kind |-> "record", start |-> clock,
                            blueprint |-> prompt, lengthMs |-> duration * 1000,
                            recording |-> Len(recordings) + 1, at |-> clock]
                   looping == RequestFrame(StopAnimation(Animation), step)
               IN  /\ rafRef' = looping.rafRef
                   /\ pendingFrames' = looping.pending
                   /\ rafNext' = rafNext + 1
            /\ timers' = timers \cup {[recording |-> Len(recordings) + 1,
                                       due |-> clock + duration * 1000]}
    /\ UNCHANGED <<frames, frameArgs, frameLog>>
    /\ UNCHANGED <<mimeSupported, clock>>
    /\ UNCHANGED <<formVars, effect, edits>>
    /\ UNCHANGED <<hashVars, rngVars, sceneVars>>

\* The callback of handleGenerate's setTimeout runs: stopAnimation(), then
\* recorder.stop(), which throws if the recorder is inactive
StopTimer(t) ==
    /\ clock >= t.due
    /\ timers' = timers \ {t}
    /\ rafRef' = StopAnimation(Animation).rafRef
    /\ pendingFrames' = StopAnimation(Animation).pending
    /\ recordings' = IF recordings[t.recording].recorder = "recording"
                     THEN [recordings EXCEPT ![t.recording].recorder = "stopping"]
                     ELSE recordings
    /\ UNCHANGED <<mimeSupported, clock, rafNext>>
    /\ UNCHANGED <<formVars, status, progress, videoUrl, error, effect, edits>>
    /\ UNCHANGED <<hashVars, rngVars, sceneVars, renderVars>>

\* The recorder's stop event: onstop resolves recordingDone and
\* handleGenerate goes on from its await
RecorderStop(r) ==
    /\ recordings[r].recorder = "stopping"
    /\ ~EffectPending
    /\ recordings' = [recordings EXCEPT ![r].recorder = "inactive"]
    /\ videoUrl' = TRUE
    /\ status' = "ready"
    /\ progress' = <<1, 1>>
    /\ UNCHANGED <<mimeSupported, clock, pendingFrames, rafNext, timers>>
    /\ UNCHANGED <<formVars, error, rafRef, effect, edits>>
    /\ UNCHANGED <<hashVars, rngVars, sceneVars, renderVars>>

\* The recorder's error event: onerror rejects recordingDone and
\* handleGenerate goes on in its catch
RecorderError(r) ==
    /\ recordings[r].recorder = "recording"
    /\ ~EffectPending
    /\ recordings' = [recordings EXCEPT ![r].recorder = "inactive"]
    /\ error' = "Failed to record video"
    /\ status' = "idle"
    /\ UNCHANGED <<mimeSupported, clock, pendingFrames, rafNext, timers>>
    /\ UNCHANGED <<formVars, progress, videoUrl, rafRef, effect, edits>>
    /\ UNCHANGED <<hashVars, rngVars, sceneVars, renderVars>>

\* The Reset button, which is shown while videoUrl is set
ResetVideo ==
    /\ videoUrl
    /\ ~EffectPending
    /\ videoUrl' = FALSE
    /\ status' = "idle"
    /\ progress' = <<0, 1>>
    /\ UNCHANGED <<formVars, error, rafRef, effect, edits>>
    /\ UNCHANGED <<hashVars, rngVars, sceneVars, renderVars, browserVars>>

HandlePromptChange(value) ==
    /\ ~EffectPending
    /\ edits < MaxEdits
    /\ value # prompt
    /\ prompt' = value
    /\ edits' = edits + 1
    /\ UNCHANGED <<fps, duration, resolution>>
    /\ UNCHANGED <<status, progress, videoUrl, error, rafRef, effect>>
    /\ UNCHANGED <<hashVars, rngVars, sceneVars, renderVars, browserVars>>

HandleResolutionChange(value) ==
    /\ ~EffectPending
    /\ edits < MaxEdits
    /\ value # resolution
    /\ resolution' = value
    /\ edits' = edits + 1
    /\ UNCHANGED <<prompt, fps, duration>>
    /\ UNCHANGED <<status, progress, videoUrl, error, rafRef, effect>>
    /\ UNCHANGED <<hashVars, rngVars, sceneVars, renderVars, browserVars>>

HandleDurationChange(value) ==
    /\ ~EffectPending
    /\ edits < MaxEdits
    /\ value # duration
    /\ duration' = value
    /\ edits' = edits + 1
    /\ UNCHANGED <<prompt, fps, resolution>>
    /\ UNCHANGED <<status, progress, videoUrl, error, rafRef, effect>>
    /\ UNCHANGED <<hashVars, rngVars, sceneVars, renderVars, browserVars>>

HandleFpsChange(value) ==
    /\ ~EffectPending
    /\ edits < MaxEdits
    /\ value # fps
    /\ fps' = value
    /\ edits' = edits + 1
    /\ UNCHANGED <<prompt, duration, resolution>>
    /\ UNCHANGED <<status, progress, videoUrl, error, rafRef, effect>>
    /\ UNCHANGED <<hashVars, rngVars, sceneVars, renderVars, browserVars>>

NextApp ==
    \/ Tick
    \/ RunEffect
    \/ \E f \in pendingFrames : AnimationFrame(f)
    \/ HandleGenerate
    \/ \E t \in timers : StopTimer(t)
    \/ \E r \in 1 .. Len(recordings) : RecorderStop(r)
    \/ \E r \in 1 .. Len(recordings) : RecorderError(r)
    \/ ResetVideo
    \/ \E value \in RenderPrompts : HandlePromptChange(value)
    \/ \E value \in Resolutions : HandleResolutionChange(value)
    \/ \E value \in Durations : HandleDurationChange(value)
    \/ \E value \in FpsOptions : HandleFpsChange(value)

SpecApp == InitApp /\ [][NextApp]_vars

---------------------------------------------------------------------------
(* hashString against h * 31 + charCode with 32-bit wraparound             *)

Ref31(h, c) == ToInt32(WAdd(WMul(h, 31), WInt(c)))

RECURSIVE RefFold(_, _)
RefFold(h, s) ==
    IF s = <<>> THEN h
    ELSE IF Len(s) = 1 THEN Ref31(h, s[1])
    ELSE Bind(RefFold(h, SubSeq(s, 1, Len(s) \div 2)),
              LAMBDA mid : RefFold(mid, SubSeq(s, (Len(s) \div 2) + 1, Len(s))))

RefHash(s) == RefFold(WZero, s)

\* C4: hashString returns |h|, h the 32-bit two's-complement wraparound of
\* h * 31 + charCode iterated over the characters in order: at every step
\* of the loop the accumulator is that h for the characters consumed, and
\* the returned value is |h|, lies in 0 .. 2^31, and is 0 for "".
HashIsWrapped31 ==
    /\ hPc \in {"loop", "done"} => hHash = RefHash(SubSeq(hInput, 1, hI))
    /\ hPc = "done" =>
        /\ hRet = WAbs(RefHash(hInput))
        /\ WLe(WZero, hRet) /\ WLe(hRet, Two31)
        /\ hInput = <<>> => hRet = WZero

\* a call has returned 2^31: the accumulator wrapped to -2^31
HashWrappedWitness == hPc = "done" /\ hInput = PromptMinInt /\ hRet = Two31

---------------------------------------------------------------------------
(* A generator against the linear congruential recurrence                  *)

\* s * 1664525 mod 2^32 by Horner's rule over the decimal digits of 1664525
RefDigit(acc, s, d) == ModTwo32(WAdd(WMul(acc, 10), WMul(s, d)))
RefTimesMultiplier(s) ==
    RefDigit(RefDigit(RefDigit(RefDigit(RefDigit(RefDigit(RefDigit(
        WZero, s, 1), s, 6), s, 6), s, 4), s, 5), s, 2), s, 5)

RefLcg(s) == ModTwo32(WAdd(RefTimesMultiplier(s), WInt(1013904223)))

RECURSIVE RefIterate(_, _)
RefIterate(s, n) ==
    IF n = 0 THEN s
    ELSE IF n = 1 THEN RefLcg(s)
    ELSE Bind(RefIterate(s, n \div 2), LAMBDA mid : RefIterate(mid, n - (n \div 2)))

\* C5: a generator starts from state = seed (1 for seed 0); after n calls
\* its state is the n-th iterate of s -> (s * 1664525 + 1013904223) mod
\* 2^32, an integer in 0 .. 2^32 - 1 reached without rounding, and the
\* value returned is state / 2^32, in [0, 1).
RngIsLcg ==
    gPc = "live" =>
        /\ gState = RefIterate(IF gSeed = WZero THEN WInt(1) ELSE gSeed, gCalls)
        /\ IsUint32(gState)
        /\ LcgExact(gState)
        /\ gCalls > 0 => gOut = gState /\ WLe(WZero, gOut) /\ WLt(gOut, Two32)

\* a generator seeded with 0 has been called to the bound
RngWitness == gPc = "live" /\ gSeed = WZero /\ gCalls = MaxDraws

---------------------------------------------------------------------------
\* C1: buildScene is deterministic: two calls with the same prompt return
\* equal blueprints, whatever calls were made before or between them.
SceneDeterministic ==
    \A i, j \in DOMAIN scenes :
        scenes[i].prompt = scenes[j].prompt => scenes[i].blueprint = scenes[j].blueprint

\* two calls with one prompt, and between them a call with another prompt
\* that returned another blueprint
SceneRepeatedWitness ==
    \E i, j, k \in DOMAIN scenes :
        /\ i < k /\ k < j
        /\ scenes[i].prompt = scenes[j].prompt
        /\ scenes[k].blueprint # scenes[i].blueprint

---------------------------------------------------------------------------
IsBlank(p) == \A k \in DOMAIN p : p[k] \in WhiteSpace

\* C2: buildScene(p) = buildScene(p.trim().toLowerCase()), and a prompt of
\* white space only (the empty one too) gives the blueprint of "sora".
SceneOfNormalizedPrompt ==
    \A i, j \in DOMAIN scenes :
        /\ scenes[j].prompt = TrimLower(scenes[i].prompt) =>
               scenes[i].blueprint = scenes[j].blueprint
        /\ IsBlank(scenes[i].prompt) /\ scenes[j].prompt = Sora =>
               scenes[i].blueprint = scenes[j].blueprint

\* a prompt that trimming and lower-casing change, its normal form, and a
\* blank prompt have been built
SceneNormalizedWitness ==
    \E i, j, k \in DOMAIN scenes :
        /\ scenes[i].prompt = PromptMixed
        /\ scenes[j].prompt = TrimLower(PromptMixed)
        /\ scenes[j].prompt = Sora
        /\ scenes[k].prompt = PromptBlank

---------------------------------------------------------------------------
\* lo/D <= v < hi/D for a numerator v over D * 2^32
Within(v, lo, hi) == WLe(<<lo * B16, 0>>, v) /\ WLt(v, <<hi * B16, 0>>)

BlueprintInRanges(b) ==
    /\ Len(b.layers) \in 5..9
    /\ Len(b.sparks) \in 120..299
    /\ \A i \in DOMAIN b.layers :
        /\ Within(b.layers[i].radius, 5, 18)        \* over 20
        /\ Within(b.layers[i].rotation, 0, 2)       \* in units of pi
        /\ Within(b.layers[i].speed, 2, 11)         \* over 10
        /\ Within(b.layers[i].variance, 2, 8)       \* over 10
    /\ \A i \in DOMAIN b.sparks :
        /\ Within(b.sparks[i].angle, 0, 2)          \* in units of pi
        /\ Within(b.sparks[i].distance, 1, 10)      \* over 10
        /\ Within(b.sparks[i].size, 1, 3)
        /\ Within(b.sparks[i].drift, 1, 4)          \* over 2
        /\ Within(b.sparks[i].hueShift, -20, 20)
    /\ Within(b.pulse, 2, 4)                        \* over 5
    /\ Within(b.distort, 5, 14)                     \* over 10

\* C3: in every blueprint returned, layers.length is in 5..9 and
\* sparks.length in 120..299; radius is in [0.25, 0.90), rotation in
\* [0, 2 pi), speed in [0.2, 1.1), variance in [0.2, 0.8); angle in
\* [0, 2 pi), distance in [0.1, 1.0), size in [1, 3), drift in [0.5, 2.0),
\* hueShift in [-20, 20); pulse in [0.4, 0.8) and distort in [0.5, 1.4).
SceneInRanges ==
    \A i \in DOMAIN scenes : BlueprintInRanges(scenes[i].blueprint)

\* blueprints with 5 and with 9 layers and the one of seed 2^31 have been built
SceneRangesWitness ==
    \E i, j, k \in DOMAIN scenes :
        /\ Len(scenes[i].blueprint.layers) = 5
        /\ Len(scenes[j].blueprint.layers) = 9
        /\ HashString(Normalize(scenes[k].prompt)) = Two31

---------------------------------------------------------------------------
(* The calls buildScene makes to its generator                             *)

LayerSitesClaimed == <<"layerHue", "radius", "rotation", "speed", "variance">>
LayerSites ==
    <<"layerHue", "saturation", "lightness", "alpha", "radius", "rotation", "speed", "variance">>
SparkSites == <<"angle", "distance", "size", "drift", "hueShift">>

\* the schedule for a number of layers and of sparks, the layers' sites given
Schedule(layerSites, nLayers, nSparks) ==
    LET perLayer == Len(layerSites)
        afterLayers == 1 + perLayer * nLayers
        afterSparks == afterLayers + 1 + 5 * nSparks
    IN  [k \in 1..(afterSparks + 2) |->
            IF k = 1 THEN <<"layerCount", 0>>
            ELSE IF k <= afterLayers
                 THEN <<layerSites[((k - 2) % perLayer) + 1], (k - 2) \div perLayer>>
            ELSE IF k = afterLayers + 1 THEN <<"sparkCount", 0>>
            ELSE IF k <= afterSparks
                 THEN <<SparkSites[((k - afterLayers - 2) % 5) + 1], (k - afterLayers - 2) \div 5>>
            ELSE IF k = afterSparks + 1 THEN <<"pulse", 0>>
            ELSE <<"distort", 0>>]

SitesOf(draws) == [k \in DOMAIN draws |-> <<draws[k].site, draws[k].index>>]

LastBlueprint == scenes[Len(scenes)].blueprint

DrawsFollow(layerSites) ==
    scenes # <<>> =>
        LET nLayers == Len(LastBlueprint.layers)
            nSparks == Len(LastBlueprint.sparks)
        IN  /\ SitesOf(lastDraws) = Schedule(layerSites, nLayers, nSparks)
            /\ Len(lastDraws) = 1 + Len(layerSites) * nLayers + 1 + 5 * nSparks + 2

\* C8 as claimed: buildScene calls its generator once for layerCount, five
\* times per layer, once for sparkCount, five times per spark, then for
\* pulse and for distort: 1 + 5 * layerCount + 1 + 5 * sparkCount + 2 calls.
DrawScheduleAsClaimed == DrawsFollow(LayerSitesClaimed)

\* C8: buildScene calls its generator once for layerCount, eight times per
\* layer (the hue jitter, saturation, lightness and alpha of the colour,
\* then radius, rotation, speed, variance), once for sparkCount, five times
\* per spark, then for pulse and for distort: 1 + 8 * layerCount + 1 +
\* 5 * sparkCount + 2 calls, and each field is made from its own call.
DrawSchedule ==
    /\ DrawsFollow(LayerSites)
    /\ scenes # <<>> =>
        LET b == LastBlueprint
            at(k) == lastDraws[k].value
            layer(i) == 1 + 8 * (i - 1)
            spark(i) == 1 + 8 * Len(b.layers) + 1 + 5 * (i - 1)
        IN  /\ Len(b.layers) = 5 + FloorTimes(at(1), 5)
            /\ \A i \in DOMAIN b.layers :
                /\ b.layers[i].color.hue[2] = at(layer(i) + 1)
                /\ b.layers[i].color.saturation = 60 + FloorTimes(at(layer(i) + 2), 30)
                /\ b.layers[i].color.lightness = 45 + FloorTimes(at(layer(i) + 3), 20)
                /\ b.layers[i].color.alpha = Affine(7, 7, at(layer(i) + 4))
                /\ b.layers[i].radius = Affine(5, 13, at(layer(i) + 5))
                /\ b.layers[i].rotation = Affine(0, 2, at(layer(i) + 6))
                /\ b.layers[i].speed = Affine(2, 9, at(layer(i) + 7))
                /\ b.layers[i].variance = Affine(2, 6, at(layer(i) + 8))
            /\ Len(b.sparks) = 120 + FloorTimes(at(spark(1)), 180)
            /\ \A i \in DOMAIN b.sparks :
                /\ b.sparks[i].angle = Affine(0, 2, at(spark(i) + 1))
                /\ b.sparks[i].distance = Affine(1, 9, at(spark(i) + 2))
                /\ b.sparks[i].size = Affine(1, 2, at(spark(i) + 3))
                /\ b.sparks[i].drift = Affine(1, 3, at(spark(i) + 4))
                /\ b.sparks[i].hueShift = Affine(-20, 40, at(spark(i) + 5))
            /\ b.pulse = Affine(2, 2, at(Len(lastDraws) - 1))
            /\ b.distort = Affine(5, 9, at(Len(lastDraws)))

\* a call that made 9 layers has returned
DrawScheduleWitness ==
    scenes # <<>> /\ Len(LastBlueprint.layers) = 9 /\ Len(lastDraws) = 1 + 72 + 1 + 5 * 182 + 2

---------------------------------------------------------------------------
\* The blueprint and the numbers of layers and sparks of the latest frame
FrameBlueprint == BlueprintOf[frameArgs.prompt]
FrameLayers == Len(FrameBlueprint.layers)
FrameSparks == Len(FrameBlueprint.sparks)

\* No width or height has been given to the canvas since the page was made:
\* every call of drawScene so far found the context as the call before left it
NeverResized == canvas.width = 300 /\ frameArgs.canvas.width = 300

\* C6: between calls of drawScene the context's compositing mode is
\* "source-over", and within a call the commands issued under "lighter" are
\* the fills of the sparks and no others.
BlendRestored ==
    /\ ctx.globalCompositeOperation = "source-over"
    /\ \A k \in 1 .. Len(frameLog) :
           frameLog[k].blend = "lighter" <=> frameLog[k].shape.kind = "spark"

\* the last of several calls on a context never reset has returned, having
\* painted under "lighter"
BlendRestoredWitness ==
    /\ frames = MaxFrames
    /\ NeverResized
    /\ ctx.globalCompositeOperation = "source-over"
    /\ \E k \in 1 .. Len(frameLog) : frameLog[k].blend = "lighter"

\* C7: the commands of a call of drawScene, with the compositing mode and
\* the filter in effect at each, are those of the same call on a context in
\* the default state, however many calls came before it: the background
\* under "source-over" and no filter, layer i under "source-over" and a blur
\* of 3 + 1.5 * i pixels, every spark under "lighter" and no filter.
FrameIndependent ==
    frames > 0 =>
        /\ frameLog = DrawScene(DefaultContext, frameArgs.canvas, frameArgs.time,
                                FrameBlueprint).log
        /\ \A k \in 1 .. Len(frameLog) :
               LET e == frameLog[k]
               IN  /\ e.shape.kind = "rect" =>
                          e.blend = "source-over" /\ e.filter.kind = "none"
                   /\ e.shape.kind = "layer" =>
                          /\ e.blend = "source-over"
                          /\ e.filter.kind = "blur"
                          /\ e.filter.halfPixels = 2 * 3 + 3 * e.shape.index
                   /\ e.shape.kind = "spark" =>
                          e.blend = "lighter" /\ e.filter.kind = "none"

\* a frame at time 0 has been drawn after earlier frames on a context
\* never reset
FrameIndependentWitness ==
    /\ frames = MaxFrames
    /\ NeverResized
    /\ frameArgs.time = 0
    /\ Len(frameLog) > 2

\* C9: a call of drawScene issues, in this order: the clearing of the
\* canvas; the fill of the canvas with the gradient of the two background
\* colours; one fill for each layer, in the blueprint's order, in the
\* layer's colour and under "source-over"; one fill for each spark, in the
\* blueprint's order, under "lighter"; and nothing else.
CompositingOrder ==
    frames > 0 =>
        /\ Len(frameLog) = 2 + FrameLayers + FrameSparks
        /\ frameLog[1].cmd = "clearRect"
        /\ frameLog[1].shape.kind = "rect"
        /\ frameLog[2].cmd = "fillRect"
        /\ frameLog[2].shape.kind = "rect"
        /\ frameLog[2].shape.from = <<frameArgs.canvas>>
        /\ frameLog[2].style.kind = "linearGradient"
        /\ frameLog[2].style.value = FrameBlueprint.background
        /\ Len(frameLog[2].style.value) = 2
        /\ \A i \in 0 .. FrameLayers - 1 :
               LET e == frameLog[3 + i]
               IN  /\ e.cmd = "fill"
                   /\ e.shape.kind = "layer"
                   /\ e.shape.index = i
                   /\ e.blend = "source-over"
                   /\ e.style.kind = "color"
                   /\ e.style.value = <<FrameBlueprint.layers[i + 1].color>>
        /\ \A j \in 0 .. FrameSparks - 1 :
               LET e == frameLog[3 + FrameLayers + j]
               IN  /\ e.cmd = "fill"
                   /\ e.shape.kind = "spark"
                   /\ e.shape.index = j
                   /\ e.blend = "lighter"
                   /\ e.style.kind = "radialGradient"
                   /\ e.style.value[1].hueShift = FrameBlueprint.sparks[j + 1].hueShift

\* a frame of the starting prompt's scene, 5 layers and 165 sparks, has been
\* drawn after another
CompositingOrderWitness ==
    /\ frames > 1
    /\ frameArgs.prompt = PromptDefault
    /\ Len(frameLog) = 2 + 5 + 165

---------------------------------------------------------------------------
\* C10: while a recording's recorder is recording, its stop timer has not
\* run and its loop has not seen elapsed exceed the duration, a frame
\* callback of the loop is pending: nothing but the loop's own end and the
\* stop timer takes it away.
RecordingLoopStaysPending ==
    \A r \in 1 .. Len(recordings) :
        ( /\ recordings[r].recorder = "recording"
          /\ recordings[r].looping
          /\ \E t \in timers : t.recording = r )
        => \E f \in pendingFrames : f.kind = "record" /\ f.recording = r

=============================================================================
